---- MODULE Spec2Model ----
(***************************************************************************)
(* Model of ChunkedVideoUpload (src/public/js/chunked-upload.js): one      *)
(* controller instance, the start() coroutines running on it, the three    *)
(* HTTP endpoints it talks to and the timers it waits on.                  *)
(*                                                                         *)
(* JavaScript runs each piece of code between two awaits to completion, so *)
(* one action is one such piece: a call made from outside (start, pause,   *)
(* resume, cancel), the arrival of a response, or the firing of a timer,   *)
(* followed by everything start() does until it next waits.  A response   *)
(* arrives in two pieces, its headers (fetch resolves) and its body        *)
(* (response.json() resolves).                                             *)
(*                                                                         *)
(* The module also models the scheduling of CommentPoller                  *)
(* (src/public/js/comment-polling.js): its timers, its poll requests and   *)
(* the visibility handler.                                                 *)
(***************************************************************************)
EXTENDS Integers, Sequences, FiniteSets, TLC

\* ---------------------------------------------------------------- bounds
MaxFileSize == 3      \* file.size ranges over 1..MaxFileSize
MaxChunkOpt == 2      \* options.chunkSize ranges over 0..MaxChunkOpt
MaxRetriesOpt == 1    \* options.maxRetries ranges over 0..MaxRetriesOpt
MaxDelayOpt == 1      \* options.retryDelay ranges over 0..MaxDelayOpt
MaxSessions == 2      \* no page reload once the server has this many sessions
MaxTimers == 8        \* setTimeout hands out the timer ids 1..MaxTimers

\* The calls of start() made on the instance: a first and a second one.
Runs == {1, 2}

\* ------------------------------------------------------ program constants
DefaultChunkSize == 99 * 1024 * 1024
DefaultMaxRetries == 3
DefaultRetryDelay == 1000

\* ---------------------------------------------------------- pure helpers
\* JavaScript `a || b` on numbers: 0 (and undefined, modelled as 0) is falsy.
OrDefault(opt, def) == IF opt = 0 THEN def ELSE opt

\* Math.floor in the place of Math.ceil.
CeilAsFloor(a, b) == a \div b

\* Math.ceil(a / b) for a >= 0, b >= 1.
Ceil(a, b) == IF a % b = 0 THEN a \div b ELSE (a \div b) + 1

\* Math.min
Max(a, b) == IF a >= b THEN a ELSE b
Min(a, b) == IF a < b THEN a ELSE b

\* A backoff that grows linearly instead of doubling.
Pow2AsLinear(n) == n + 1

\* Math.pow(2, n) for n >= 0.
RECURSIVE Pow2(_)
Pow2(n) == IF n = 0 THEN 1 ELSE 2 * Pow2(n - 1)

\* Sum of a sequence of numbers (used to state claims).
RECURSIVE SumSeq(_)
SumSeq(s) == IF s = <<>> THEN 0 ELSE Head(s) + SumSeq(Tail(s))

\* The constructor: fields of a new instance for a file of `size` bytes.
Construct(size, chunkOpt, retriesOpt, delayOpt) ==
  [ chunkSize         |-> OrDefault(chunkOpt, DefaultChunkSize),
    maxRetries        |-> OrDefault(retriesOpt, DefaultMaxRetries),
    retryDelay        |-> OrDefault(delayOpt, DefaultRetryDelay),
    uploadId          |-> 0,
    uploadedBytes     |-> 0,
    totalBytes        |-> size,
    currentChunkIndex |-> 0,
    totalChunks       |-> Ceil(size, OrDefault(chunkOpt, DefaultChunkSize)),
    isPaused          |-> FALSE,
    isCancelled       |-> FALSE,
    retryCount        |-> 0 ]

\* A chunk that starts where the acknowledged bytes end, instead of at its
\* index times the chunk size.
ChunkStartFromUploaded(t, i) == t.uploadedBytes

\* Chunk boundaries computed in the loop of start() for chunk index i.
ChunkStart(t, i) == i * t.chunkSize
ChunkEnd(t, i) == Min(ChunkStart(t, i) + t.chunkSize, t.totalBytes)

\* getProgress() with the percentage taken from the chunk being worked on
\* (currentChunk of totalChunks) instead of the acknowledged bytes.
getProgressByCurrentChunk(t) ==
  [ uploadedBytes  |-> t.uploadedBytes,
    totalBytes     |-> t.totalBytes,
    percentage     |-> [num |-> (t.currentChunkIndex + 1) * 100,
                        den |-> t.totalChunks],
    currentChunk   |-> t.currentChunkIndex + 1,
    totalChunks    |-> t.totalChunks,
    chunksComplete |-> t.currentChunkIndex,
    bytesRemaining |-> t.totalBytes - t.uploadedBytes,
    isComplete     |-> t.uploadedBytes >= t.totalBytes ]

\* getProgress() with bytesRemaining taken from the chunks still to do.
getProgressRemainingByChunks(t) ==
  [ uploadedBytes  |-> t.uploadedBytes,
    totalBytes     |-> t.totalBytes,
    percentage     |-> [num |-> t.uploadedBytes * 100, den |-> t.totalBytes],
    currentChunk   |-> t.currentChunkIndex + 1,
    totalChunks    |-> t.totalChunks,
    chunksComplete |-> t.currentChunkIndex,
    bytesRemaining |-> (t.totalChunks - t.currentChunkIndex) * t.chunkSize,
    isComplete     |-> t.uploadedBytes >= t.totalBytes ]

\* getProgress(); the percentage (uploadedBytes / totalBytes) * 100 is kept
\* as the exact fraction num / den.
getProgress(t) ==
  [ uploadedBytes  |-> t.uploadedBytes,
    totalBytes     |-> t.totalBytes,
    percentage     |-> [num |-> t.uploadedBytes * 100, den |-> t.totalBytes],
    currentChunk   |-> t.currentChunkIndex + 1,
    totalChunks    |-> t.totalChunks,
    chunksComplete |-> t.currentChunkIndex,
    bytesRemaining |-> t.totalBytes - t.uploadedBytes,
    isComplete     |-> t.uploadedBytes >= t.totalBytes ]

\* Comparisons of percentages as JavaScript numbers: with den = 0 (an
\* empty file) the quotient is NaN for num = 0, which compares false with
\* everything, and Infinity or -Infinity otherwise.
PctLeq(p, q) ==
  IF (p.den = 0 /\ p.num = 0) \/ (q.den = 0 /\ q.num = 0) THEN FALSE
  ELSE IF p.den = 0 THEN p.num < 0 \/ (q.den = 0 /\ q.num > 0)
  ELSE IF q.den = 0 THEN q.num > 0
  ELSE p.num * q.den <= q.num * p.den
PctIs100(p) == p.den # 0 /\ p.num = 100 * p.den

\* ------------------------------------------------------- HTTP responses
\* A response as the client reads it: response.ok, and the JSON envelope
\* { success, data, error }.  data = 0 stands for a missing data field.
Response(ok, success, data, error) ==
  [ok |-> ok, success |-> success, data |-> data, error |-> error]

HttpError == Response(FALSE, FALSE, 0, "")
BadEnvelope == Response(TRUE, FALSE, 0, "")
Failures == {HttpError, BadEnvelope}

\* A check of the response that looks at response.ok only, and not at the
\* envelope.
ResponseErrorIgnoringEnvelope(resp) ==
  IF ~resp.ok
  THEN IF resp.error # "" THEN resp.error ELSE "HTTP 500"
  ELSE ""

\* The message of the Error thrown by createSession / uploadChunk /
\* finalizeUpload for a response, "" when it throws nothing.
ResponseError(resp) ==
  IF ~resp.ok
  THEN IF resp.error # "" THEN resp.error ELSE "HTTP 500"
  ELSE IF ~resp.success \/ resp.data = 0
       THEN IF resp.error # "" THEN resp.error
            ELSE "Invalid response from server"
       ELSE ""

\* Errors thrown by start(): the message, and for the error raised after
\* the last attempt the number of attempts and the last failure's message.
Error(message, attempts, cause) ==
  [message |-> message, attempts |-> attempts, cause |-> cause]
NoError == Error("", 0, "")
CancelledByUser == Error("Upload cancelled by user", 0, "")
CancelledInRetry == Error("Upload cancelled", 0, "")
\* An aggregated error that leaves out the message of the last failure.
ExhaustedWithoutCause(n, cause) == Error("Failed to upload chunk after", n, "")
Exhausted(n, cause) == Error("Failed to upload chunk after", n, cause)
ThrownByOnComplete == Error("thrown by onComplete", 0, "")
IsCancellation(e) == e \in {CancelledByUser, CancelledInRetry}

\* Requests put on the wire.
NoReq == [endpoint |-> "none", uploadId |-> 0, offset |-> 0, size |-> 0]
CreateReq(t) ==
  [endpoint |-> "create", uploadId |-> 0, offset |-> 0, size |-> t.totalBytes]
ChunkReq(t, offset, size) ==
  [endpoint |-> "chunk", uploadId |-> t.uploadId, offset |-> offset,
   size |-> size]
FinalizeReq(t) ==
  [endpoint |-> "finalize", uploadId |-> t.uploadId, offset |-> 0, size |-> 0]

\* Callback invocations, in the order made.
OnProgress(p) == [cb |-> "onProgress", progress |-> p]
OnChunkComplete(i, n) == [cb |-> "onChunkComplete", index |-> i, total |-> n]
OnComplete(d) == [cb |-> "onComplete", result |-> d]
OnError(e) == [cb |-> "onError", error |-> e]

\* -------------------------------------------------------- CommentPoller
\* The scheduling state of a CommentPoller p and of the page it lives in:
\*   isActive, pollTimer, inactiveTimer   fields of the instance (0: null)
\*   pollTimers      ids of the pending timeouts that will call poll()
\*   inactiveTimers  ids of the pending timeouts that will call stop()
\*   nextTimer       the id the next setTimeout returns
\*   inFlight        number of poll() calls waiting for their response
\*   reading         how many of these wait for response.json(), their
\*                   fetch having resolved
\*   hidden          document.hidden
\* The comments themselves (lastTimestamp, commentIds) are left out.

\* clearTimeout(id): a pending timeout is dropped, any other id is ignored.
clearTimeout(p, id) ==
  [p EXCEPT !.pollTimers = @ \ {id}, !.inactiveTimers = @ \ {id}]

\* resetInactiveTimer()
resetInactiveTimer(p) ==
  LET q == IF p.inactiveTimer # 0 THEN clearTimeout(p, p.inactiveTimer)
           ELSE p
  IN [q EXCEPT !.inactiveTimer = q.nextTimer,
               !.inactiveTimers = @ \cup {q.nextTimer},
               !.nextTimer = @ + 1]

\* start(): a poll timeout is set and its id kept in pollTimer, whatever
\* pollTimer held before; then the inactivity timer is reset.
start(p) ==
  IF ~p.isActive THEN p
  ELSE resetInactiveTimer([p EXCEPT !.pollTimer = p.nextTimer,
                                    !.pollTimers = @ \cup {p.nextTimer},
                                    !.nextTimer = @ + 1])

\* stop()
stop(p) ==
  LET q == IF p.pollTimer # 0
           THEN [clearTimeout(p, p.pollTimer) EXCEPT !.pollTimer = 0]
           ELSE p
      u == IF q.inactiveTimer # 0
           THEN [clearTimeout(q, q.inactiveTimer) EXCEPT !.inactiveTimer = 0]
           ELSE q
  IN [u EXCEPT !.isActive = FALSE]

\* The visibilitychange listener, run with document.hidden as in p.
onVisibilityChange(p) ==
  IF p.hidden
  THEN IF p.pollTimer # 0
       THEN [clearTimeout(p, p.pollTimer) EXCEPT !.pollTimer = 0]
       ELSE p
  ELSE IF p.isActive /\ p.pollTimer = 0 THEN start(p) ELSE p

\* new CommentPoller(threadId, options) in a visible page: the constructor
\* calls start().
NewPoller ==
  start([ isActive       |-> TRUE,
          pollTimer      |-> 0,
          inactiveTimer  |-> 0,
          pollTimers     |-> {},
          inactiveTimers |-> {},
          nextTimer      |-> 1,
          inFlight       |-> 0,
          reading        |-> 0,
          hidden         |-> FALSE ])

\* ------------------------------------------------------------------ state
VARIABLES
  this,    \* the fields of the ChunkedVideoUpload instance
  run,     \* run[r]: position and locals of the r-th call of start()
  calls,   \* calls[r]: callbacks invoked by the r-th call of start()
  server,  \* number of upload sessions the server has created
  poller,  \* the CommentPoller of the page, its timers and its requests
  headers  \* headers[r]: what the fetch of the r-th start() has resolved
           \* with while its body is awaited: "ok" or "error" (response.ok),
           \* "none" before that and when no body is awaited

vars == <<this, run, calls, server, poller, headers>>

NewRun ==
  [ pc        |-> "idle",   \* idle, create, wait, chunk, sleep, finalize, done
    start     |-> -1,       \* `start` / `offset` of the last chunk sliced
    end       |-> -1,       \* `end` of the last chunk sliced (-1: none yet)
    attempt   |-> 0,        \* `attempt` in uploadChunkWithRetry
    lastError |-> "",       \* `lastError` in uploadChunkWithRetry
    slept     |-> <<>>,     \* delays slept in this uploadChunkWithRetry
    req       |-> NoReq,    \* the request awaited
    error     |-> NoError,  \* the error start() rejected with
    result    |-> 0 ]       \* the value start() resolved with

Init ==
  /\ this \in { Construct(size, c, m, d) :
                  size \in 1..MaxFileSize, c \in 0..MaxChunkOpt,
                  m \in 0..MaxRetriesOpt, d \in 0..MaxDelayOpt }
  /\ run = [r \in Runs |-> NewRun]
  /\ calls = [r \in Runs |-> <<>>]
  /\ server = 0
  /\ poller = NewPoller
  /\ headers = [r \in Runs |-> "none"]

\* A new instance on which start() is called more than once: one retry
\* per chunk (maxRetries: 1), retryDelay is left at its default.
InitReentry ==
  /\ this \in { Construct(size, c, 1, 0) :
                  size \in 1..MaxFileSize, c \in 0..MaxChunkOpt }
  /\ run = [r \in Runs |-> NewRun]
  /\ calls = [r \in Runs |-> <<>>]
  /\ server = 0
  /\ poller = NewPoller
  /\ headers = [r \in Runs |-> "none"]

\* ------------------------------------------------- the body of start()
\* Each operator below is a stretch of start() (with the callee inlined),
\* given the instance fields t as updated so far in this step, the run's
\* locals rr and the callbacks cs it has invoked; it fixes run' and calls'.

\* An error that is reported to onError by the inner and the outer catch.
RejectTwice(r, rr, cs, e) ==
  /\ run' = [run EXCEPT ![r] =
               [rr EXCEPT !.pc = "done", !.req = NoReq, !.error = e]]
  /\ calls' = [calls EXCEPT ![r] = cs \o <<OnError(e), OnError(e)>>]

\* catch (error) { this.onError(error); throw error; }
Reject(r, rr, cs, e) ==
  /\ run' = [run EXCEPT ![r] =
               [rr EXCEPT !.pc = "done", !.req = NoReq, !.error = e]]
  /\ calls' = [calls EXCEPT ![r] = Append(cs, OnError(e))]

\* The size of file.slice(start, end) for a file of the given size: both
\* bounds are clamped to the file (a negative bound counts from its end) and
\* an empty range gives an empty chunk.
SliceBound(size, x) == IF x < 0 THEN Max(size + x, 0) ELSE Min(x, size)
SliceSize(size, from, to) ==
  Max(SliceBound(size, to) - SliceBound(size, from), 0)

\* One pass of the for loop of uploadChunkWithRetry, from the loop
\* condition and the cancel check to the fetch of uploadChunk.  When the
\* condition fails the error after the loop is thrown; a lastError that is
\* still null gives the message "undefined".
Attempt(r, t, rr, cs) ==
  IF rr.attempt > t.maxRetries
  THEN Reject(r, rr, cs,
              Exhausted(t.maxRetries + 1,
                        IF rr.lastError = "" THEN "undefined"
                        ELSE rr.lastError))
  ELSE IF t.isCancelled
  THEN Reject(r, rr, cs, CancelledInRetry)
  ELSE /\ run' = [run EXCEPT ![r] =
                    [rr EXCEPT !.pc = "chunk",
                               !.req = ChunkReq(t, rr.start,
                                                SliceSize(t.totalBytes,
                                                          rr.start, rr.end))]]
       /\ calls' = [calls EXCEPT ![r] = cs]

\* The loop body from "Calculate chunk boundaries" to the first attempt.
Slice(r, t, rr, cs) ==
  Attempt(r, t,
          [rr EXCEPT !.start = ChunkStart(t, t.currentChunkIndex),
                     !.end = ChunkEnd(t, t.currentChunkIndex),
                     !.attempt = 0, !.lastError = "", !.slept = <<>>],
          cs)

\* After the while loop: the cancel check, then the finalize request.
AfterLoop(r, t, rr, cs) ==
  IF t.isCancelled
  THEN Reject(r, rr, cs, CancelledByUser)
  ELSE /\ run' = [run EXCEPT ![r] =
                    [rr EXCEPT !.pc = "finalize", !.req = FinalizeReq(t)]]
       /\ calls' = [calls EXCEPT ![r] = cs]

\* The while condition with <= in the place of <.
LoopOffByOne(r, t, rr, cs) ==
  IF t.currentChunkIndex <= t.totalChunks /\ ~t.isCancelled
  THEN IF t.isPaused
       THEN /\ run' = [run EXCEPT ![r] =
                         [rr EXCEPT !.pc = "wait", !.req = NoReq]]
            /\ calls' = [calls EXCEPT ![r] = cs]
       ELSE Slice(r, t, rr, cs)
  ELSE AfterLoop(r, t, rr, cs)

\* The while condition and the pause check.
Loop(r, t, rr, cs) ==
  IF t.currentChunkIndex < t.totalChunks /\ ~t.isCancelled
  THEN IF t.isPaused
       THEN /\ run' = [run EXCEPT ![r] =
                         [rr EXCEPT !.pc = "wait", !.req = NoReq]]
            /\ calls' = [calls EXCEPT ![r] = cs]
       ELSE Slice(r, t, rr, cs)
  ELSE AfterLoop(r, t, rr, cs)

\* An acknowledgement that counts the bytes of the chunk itself instead of
\* taking over the offset the server reports.
AcknowledgeLocally(t, offset) ==
  [t EXCEPT !.uploadedBytes = ChunkEnd(t, t.currentChunkIndex),
            !.currentChunkIndex = @ + 1]

\* An acknowledgement that forgets to advance the chunk index.
AcknowledgeNoAdvance(t, offset) == [t EXCEPT !.uploadedBytes = offset]

\* "Update progress": the server-reported offset is taken over and the
\* chunk index advanced.
Acknowledge(t, offset) ==
  [t EXCEPT !.uploadedBytes = offset, !.currentChunkIndex = @ + 1]

\* --------------------------------------------------------------- actions
\* A start() that keeps a restored session: with an uploadId already set
\* it sends no session-create request and enters the loop at once.
StartResumingSession(r) ==
  /\ run[r].pc = "idle"
  /\ \A q \in Runs : q < r => run[q].pc # "idle"
  /\ LET t == [this EXCEPT !.isCancelled = FALSE, !.isPaused = FALSE,
                           !.retryCount = 0]
     IN /\ this' = t
        /\ IF this.uploadId # 0
           THEN Loop(r, t, run[r], calls[r])
           ELSE /\ run' = [run EXCEPT ![r].pc = "create",
                                      ![r].req = CreateReq(this)]
                /\ UNCHANGED calls
  /\ UNCHANGED <<server, poller, headers>>

\* start() is called: flags reset, session-create request sent.
Start(r) ==
  /\ run[r].pc = "idle"
  /\ \A q \in Runs : q < r => run[q].pc # "idle"
  /\ this' = [this EXCEPT !.isCancelled = FALSE, !.isPaused = FALSE,
                          !.retryCount = 0]
  /\ run' = [run EXCEPT ![r].pc = "create", ![r].req = CreateReq(this)]
  /\ UNCHANGED <<calls, server, poller, headers>>

\* The fetch of the run's request resolves with the response's headers:
\* createSession / uploadChunk / finalizeUpload tests response.ok and waits
\* again, for response.json().
Headers(r, ok) ==
  /\ run[r].req # NoReq
  /\ headers[r] = "none"
  /\ headers' = [headers EXCEPT ![r] = IF ok THEN "ok" ELSE "error"]
  /\ UNCHANGED <<this, run, calls, server, poller>>

\* response.json() resolves with the body of the response whose headers
\* the run has seen.
Body(r, resp) ==
  /\ headers[r] = IF resp.ok THEN "ok" ELSE "error"
  /\ headers' = [headers EXCEPT ![r] = "none"]

\* The body of the session-create response arrives.
CreateResponse(r, resp) ==
  /\ run[r].pc = "create"
  /\ Body(r, resp)
  /\ IF ResponseError(resp) # ""
     THEN /\ Reject(r, run[r], calls[r], Error(ResponseError(resp), 0, ""))
          /\ UNCHANGED <<this, server, poller>>
     ELSE LET t == [this EXCEPT !.uploadId = resp.data]
          IN /\ this' = t
             /\ server' = resp.data
             /\ UNCHANGED poller
             /\ Loop(r, t, run[r], calls[r])

\* A retry loop that, when the attempts of a chunk are used up, skips the
\* chunk (advances the index) before it raises the error.
ChunkResponseSkipsFailed(r, resp) ==
  /\ run[r].pc = "chunk"
  /\ Body(r, resp)
  /\ UNCHANGED <<server, poller>>
  /\ IF ResponseError(resp) # ""
     THEN LET t == [this EXCEPT !.retryCount = @ + 1]
              rr == [run[r] EXCEPT !.lastError = ResponseError(resp)]
          IN IF rr.attempt < t.maxRetries
             THEN /\ this' = t
                  /\ run' = [run EXCEPT ![r] =
                          [rr EXCEPT !.pc = "sleep", !.req = NoReq,
                                     !.slept = Append(@,
                                        t.retryDelay * Pow2(rr.attempt))]]
                  /\ UNCHANGED calls
             ELSE /\ this' = [t EXCEPT !.currentChunkIndex = @ + 1]
                  /\ Reject(r, rr, calls[r],
                            Exhausted(t.maxRetries + 1, rr.lastError))
     ELSE LET t1 == Acknowledge(this, resp.data)
              cs == calls[r] \o
                      << OnProgress(getProgress(t1)),
                         OnChunkComplete(t1.currentChunkIndex,
                                         t1.totalChunks) >>
              t2 == [t1 EXCEPT !.retryCount = 0]
          IN /\ this' = t2
             /\ Loop(r, t2, run[r], cs)

\* The body of the chunk-upload response arrives.
ChunkResponse(r, resp) ==
  /\ run[r].pc = "chunk"
  /\ Body(r, resp)
  /\ UNCHANGED <<server, poller>>
  /\ IF ResponseError(resp) # ""
     THEN LET t == [this EXCEPT !.retryCount = @ + 1]
              rr == [run[r] EXCEPT !.lastError = ResponseError(resp)]
          IN /\ this' = t
             /\ IF rr.attempt < t.maxRetries
                THEN /\ run' = [run EXCEPT ![r] =
                          [rr EXCEPT !.pc = "sleep", !.req = NoReq,
                                     !.slept = Append(@,
                                        t.retryDelay * Pow2(rr.attempt))]]
                     /\ UNCHANGED calls
                ELSE Reject(r, rr, calls[r],
                            Exhausted(t.maxRetries + 1, rr.lastError))
     ELSE LET t1 == Acknowledge(this, resp.data)
              cs == calls[r] \o
                      << OnProgress(getProgress(t1)),
                         OnChunkComplete(t1.currentChunkIndex,
                                         t1.totalChunks) >>
              t2 == [t1 EXCEPT !.retryCount = 0]
          IN /\ this' = t2
             /\ Loop(r, t2, run[r], cs)

\* The backoff timer of sleep(delay) fires: next pass of the retry loop.
SleepDone(r) ==
  /\ run[r].pc = "sleep"
  /\ UNCHANGED <<this, server, poller, headers>>
  /\ Attempt(r, this, [run[r] EXCEPT !.attempt = @ + 1], calls[r])

\* An interval callback that resolves without looking at the flags.
PollTickEager(r) ==
  /\ run[r].pc = "wait"
  /\ UNCHANGED <<this, server, poller, headers>>
  /\ IF this.isCancelled
     THEN AfterLoop(r, this, run[r], calls[r])
     ELSE Slice(r, this, run[r], calls[r])

\* An interval callback that resolves only when the upload is cancelled.
PollTickOnlyOnCancel(r) ==
  /\ run[r].pc = "wait"
  /\ this.isCancelled
  /\ UNCHANGED <<this, server, poller, headers>>
  /\ AfterLoop(r, this, run[r], calls[r])

\* The 100 ms interval of waitForResume fires and finds the upload resumed
\* or cancelled (a tick that finds it still paused changes nothing).
PollTick(r) ==
  /\ run[r].pc = "wait"
  /\ ~this.isPaused \/ this.isCancelled
  /\ UNCHANGED <<this, server, poller, headers>>
  /\ IF this.isCancelled
     THEN AfterLoop(r, this, run[r], calls[r])
     ELSE Slice(r, this, run[r], calls[r])

\* The body of the finalize response arrives.  On success onComplete is
\* called inside the try block: it returns and start() resolves, or it
\* throws and the catch block reports what it threw to onError and start()
\* rejects with it.  (The other callbacks are taken to return.)
FinalizeResponse(r, resp) ==
  /\ run[r].pc = "finalize"
  /\ Body(r, resp)
  /\ UNCHANGED <<this, server, poller>>
  /\ IF ResponseError(resp) # ""
     THEN Reject(r, run[r], calls[r], Error(ResponseError(resp), 0, ""))
     ELSE \/ /\ run' = [run EXCEPT ![r].pc = "done", ![r].req = NoReq,
                                   ![r].result = resp.data]
             /\ calls' = [calls EXCEPT ![r] =
                            Append(@, OnComplete(resp.data))]
          \/ Reject(r, run[r], Append(calls[r], OnComplete(resp.data)),
                    ThrownByOnComplete)

\* A pause() that flips the flag instead of setting it.
PausedAsToggle(t) == [t EXCEPT !.isPaused = ~@]

\* The fields after pause().
Paused(t) == IF ~t.isPaused THEN [t EXCEPT !.isPaused = TRUE] ELSE t

\* A resume() that also clears the cancel flag.
ResumedAlsoUncancelled(t) ==
  IF t.isPaused THEN [t EXCEPT !.isPaused = FALSE, !.isCancelled = FALSE]
  ELSE t

\* The fields after resume().
Resumed(t) == IF t.isPaused THEN [t EXCEPT !.isPaused = FALSE] ELSE t

\* The fields after cancel().
Cancelled(t) == [t EXCEPT !.isCancelled = TRUE, !.isPaused = FALSE]

\* pause(), resume() and cancel() are called, at any time and in any state
\* (a call that finds the flag already set changes nothing).
pause ==
  /\ this' = Paused(this)
  /\ UNCHANGED <<run, calls, server, poller, headers>>

resume ==
  /\ this' = Resumed(this)
  /\ UNCHANGED <<run, calls, server, poller, headers>>

cancel ==
  /\ this' = Cancelled(this)
  /\ UNCHANGED <<run, calls, server, poller, headers>>

\* getState(): the snapshot exported for a later resume (the filename is
\* left out).
getState(t) ==
  [ uploadId          |-> t.uploadId,
    uploadedBytes     |-> t.uploadedBytes,
    currentChunkIndex |-> t.currentChunkIndex,
    totalSize         |-> t.totalBytes ]

\* A restoreState() that forgets the chunk index.
restoreStateWithoutIndex(t, state) ==
  [t EXCEPT !.uploadId = state.uploadId,
            !.uploadedBytes = state.uploadedBytes]

\* restoreState(state)
restoreState(t, state) ==
  [t EXCEPT !.uploadId = state.uploadId,
            !.uploadedBytes = state.uploadedBytes,
            !.currentChunkIndex = state.currentChunkIndex]

\* The page is reloaded: the snapshot of getState() is kept, the instance
\* and its start() calls are gone (their responses are never delivered),
\* and a new instance for the same file and options is given the snapshot
\* with restoreState().
Reload ==
  /\ server < MaxSessions
  /\ this' = restoreState(Construct(this.totalBytes, this.chunkSize,
                                    this.maxRetries, this.retryDelay),
                          getState(this))
  /\ run' = [r \in Runs |-> NewRun]
  /\ calls' = [r \in Runs |-> <<>>]
  /\ headers' = [r \in Runs |-> "none"]
  /\ UNCHANGED <<server, poller>>

\* ------------------------------------------------------ the environment
\* The session-create endpoint answers with a new uploadId or fails.
CreateResponses == {Response(TRUE, TRUE, server + 1, "")} \cup Failures

\* The chunk endpoint, following its contract, answers with the cumulative
\* offset after the chunk (data.offset), which is never more than the size
\* the session was created for, or fails.
ChunkResponses(r) ==
  {Response(TRUE, TRUE,
            Min(run[r].req.offset + run[r].req.size, this.totalBytes), "")}
    \cup Failures

\* The finalize endpoint answers with the artifact metadata (modelled by
\* the uploadId it was asked to finalize plus one, never 0), or fails.
FinalizeResponses(r) ==
  {Response(TRUE, TRUE, run[r].req.uploadId + 1, "")} \cup Failures

\* One call of start() on a new instance.
Next ==
  \/ Start(1)
  \/ \E ok \in BOOLEAN : Headers(1, ok)
  \/ \E resp \in CreateResponses : CreateResponse(1, resp)
  \/ \E resp \in ChunkResponses(1) : ChunkResponse(1, resp)
  \/ SleepDone(1)
  \/ PollTick(1)
  \/ \E resp \in FinalizeResponses(1) : FinalizeResponse(1, resp)
  \/ pause
  \/ resume
  \/ cancel

Spec == Init /\ [][Next]_vars

\* Two calls of start() on one instance, the second at any time after the
\* first.
NextReentry ==
  \/ \E r \in Runs : Start(r)
  \/ \E r \in Runs : \E ok \in BOOLEAN : Headers(r, ok)
  \/ \E r \in Runs : \E resp \in CreateResponses : CreateResponse(r, resp)
  \/ \E r \in Runs : \E resp \in ChunkResponses(r) : ChunkResponse(r, resp)
  \/ \E r \in Runs : SleepDone(r)
  \/ \E r \in Runs : PollTick(r)
  \/ \E r \in Runs : \E resp \in FinalizeResponses(r) : FinalizeResponse(r, resp)
  \/ pause
  \/ resume
  \/ cancel

SpecReentry == InitReentry /\ [][NextReentry]_vars

\* A chunk endpoint that reports any cumulative offset 1..totalBytes (an
\* offset of 0 is not reported: data = 0 stands for a missing field).
AnyOffsetResponses ==
  {Response(TRUE, TRUE, o, "") : o \in 1..this.totalBytes} \cup Failures

\* One call of start() on a new instance, whatever offsets the chunk
\* endpoint reports.
NextAnyOffset ==
  \/ Start(1)
  \/ \E ok \in BOOLEAN : Headers(1, ok)
  \/ \E resp \in CreateResponses : CreateResponse(1, resp)
  \/ \E resp \in AnyOffsetResponses : ChunkResponse(1, resp)
  \/ SleepDone(1)
  \/ PollTick(1)
  \/ \E resp \in FinalizeResponses(1) : FinalizeResponse(1, resp)
  \/ pause
  \/ resume
  \/ cancel

SpecAnyOffset == Init /\ [][NextAnyOffset]_vars

\* One call of start() per instance, and page reloads after which a new
\* instance continues from the exported state.
NextRestore ==
  \/ Start(1)
  \/ \E ok \in BOOLEAN : Headers(1, ok)
  \/ \E resp \in CreateResponses : CreateResponse(1, resp)
  \/ \E resp \in ChunkResponses(1) : ChunkResponse(1, resp)
  \/ SleepDone(1)
  \/ PollTick(1)
  \/ \E resp \in FinalizeResponses(1) : FinalizeResponse(1, resp)
  \/ pause
  \/ resume
  \/ cancel
  \/ Reload

SpecRestore == Init /\ [][NextRestore]_vars

\* ------------------------------------------- the CommentPoller at work
\* The outcomes of response.json() that matter for the timers: a body with
\* new comments, a body without, and a body that cannot be read.
PollOutcomes == {"new", "none", "error"}

\* A step of the poller that ends in state q: setTimeout has ids left, and
\* the upload is not involved.
PollerStep(q) ==
  /\ q.nextTimer <= MaxTimers + 1
  /\ poller' = q
  /\ UNCHANGED <<this, run, calls, server, headers>>

\* A poll timeout fires and calls poll(): the request is sent unless the
\* poller was stopped.  pollTimer keeps the id of the fired timeout.
PollTimerFires(id) ==
  /\ id \in poller.pollTimers
  /\ LET p == [poller EXCEPT !.pollTimers = @ \ {id}]
     IN PollerStep(IF ~p.isActive THEN p
                   ELSE [p EXCEPT !.inFlight = @ + 1])

\* The fetch of a poll request resolves: poll() calls response.json() and
\* waits again.
PollFetchResolves ==
  /\ poller.inFlight > poller.reading
  /\ PollerStep([poller EXCEPT !.reading = @ + 1])

\* The fetch of a poll request rejects: the catch and the finally block of
\* poll().
PollFetchFails ==
  /\ poller.inFlight > poller.reading
  /\ LET p == [poller EXCEPT !.inFlight = @ - 1]
     IN PollerStep(IF p.isActive THEN start(p) ELSE p)

\* response.json() settles: the rest of poll(), with its finally block.
PollSettles(outcome) ==
  /\ poller.reading > 0
  /\ LET p == [poller EXCEPT !.inFlight = @ - 1, !.reading = @ - 1]
         q == IF outcome = "new" THEN resetInactiveTimer(p) ELSE p
     IN PollerStep(IF q.isActive THEN start(q) ELSE q)

\* The inactivity timeout fires and calls stop().
InactiveTimerFires(id) ==
  /\ id \in poller.inactiveTimers
  /\ PollerStep(stop([poller EXCEPT !.inactiveTimers = @ \ {id}]))

\* The tab is hidden or shown again: the visibilitychange listener runs.
VisibilityChange(hidden) ==
  /\ hidden # poller.hidden
  /\ PollerStep(onVisibilityChange([poller EXCEPT !.hidden = hidden]))

\* stop() is called from outside, on a running or a stopped poller.
Stop ==
  /\ poller' = stop(poller)
  /\ UNCHANGED <<this, run, calls, server, headers>>

\* A page with a CommentPoller; the upload instance is left alone.
InitPoller ==
  /\ this = Construct(1, 0, 0, 0)
  /\ run = [r \in Runs |-> NewRun]
  /\ calls = [r \in Runs |-> <<>>]
  /\ server = 0
  /\ poller = NewPoller
  /\ headers = [r \in Runs |-> "none"]

NextPoller ==
  \/ \E id \in 1..MaxTimers : PollTimerFires(id)
  \/ PollFetchResolves
  \/ PollFetchFails
  \/ \E outcome \in PollOutcomes : PollSettles(outcome)
  \/ \E id \in 1..MaxTimers : InactiveTimerFires(id)
  \/ \E hidden \in BOOLEAN : VisibilityChange(hidden)
  \/ Stop

SpecPoller == InitPoller /\ [][NextPoller]_vars

\* What the environment of one start() call guarantees: every request gets
\* a response, the backoff timer fires, the interval of waitForResume keeps
\* firing (so a loop that stays resumed or cancelled is woken), and a
\* paused upload is resumed or cancelled at some time.
Fairness ==
  /\ WF_vars(\E ok \in BOOLEAN : Headers(1, ok))
  /\ WF_vars(\E resp \in CreateResponses : CreateResponse(1, resp))
  /\ WF_vars(\E resp \in ChunkResponses(1) : ChunkResponse(1, resp))
  /\ WF_vars(SleepDone(1))
  /\ WF_vars(PollTick(1))
  /\ WF_vars(\E resp \in FinalizeResponses(1) : FinalizeResponse(1, resp))
  /\ WF_vars(this.isPaused /\ (resume \/ cancel))

SpecFair == Init /\ [][Next]_vars /\ Fairness

\* ================================================================ claims
InFlight(r) == run[r].pc \notin {"idle", "done"}
Completed(r) == run[r].pc = "done" /\ run[r].error = NoError
CallsOf(r, names) == SelectSeq(calls[r], LAMBDA c : c.cb \in names)

\* C1: totalChunks = ceil(totalBytes / chunkSize); the ranges
\* [i*C, min((i+1)*C, F)) of the chunks 0..totalChunks-1 have sizes that sum
\* to F, all but the last of size C and the last of size F - C*(totalChunks-1);
\* and the range start() has sliced is the range of one of these chunks.
C1_ChunkGeometry ==
  LET F == this.totalBytes
      C == this.chunkSize
      n == this.totalChunks
      size(i) == ChunkEnd(this, i) - ChunkStart(this, i)
  IN /\ (n - 1) * C < F /\ F <= n * C
     /\ SumSeq([k \in 1..n |-> size(k - 1)]) = F
     /\ \A i \in 0..(n - 2) : size(i) = C
     /\ size(n - 1) = F - C * (n - 1)
     /\ \A r \in Runs : run[r].pc \in {"chunk", "sleep"} =>
          \E i \in 0..(n - 1) :
             /\ run[r].start = i * C
             /\ run[r].end - run[r].start = size(i)
             /\ run[r].req.endpoint = "chunk" =>
                  run[r].req.offset = i * C /\ run[r].req.size = size(i)

\* A last chunk shorter than the others is in flight.
C1_Witness ==
  /\ this.totalChunks >= 2
  /\ run[1].pc = "chunk"
  /\ run[1].start = (this.totalChunks - 1) * this.chunkSize
  /\ run[1].end - run[1].start < this.chunkSize
  /\ run[1].end = this.totalBytes

\* C2 (as claimed): once cancel() has been called during a run, the run ends
\* in the cancelled outcome: start() rejects with a cancellation error and
\* onComplete is not invoked.
C2_CancelEndsCancelled ==
  [][\A r \in Runs :
       (this.isCancelled /\ InFlight(r) /\ run'[r].pc = "done")
         => /\ IsCancellation(run'[r].error)
            /\ CallsOf(r, {"onComplete"})' = <<>>]_vars

\* C3 (as claimed): once cancel() has been called, uploadedBytes and
\* currentChunkIndex do not change.
C3_NoAdvanceAfterCancel ==
  [][this.isCancelled =>
       /\ this'.uploadedBytes = this.uploadedBytes
       /\ this'.currentChunkIndex = this.currentChunkIndex]_vars

\* C4 (as claimed): at most one chunk-upload request is outstanding.
C4_OneChunkInFlight ==
  Cardinality({r \in Runs : run[r].req.endpoint = "chunk"}) <= 1

\* C5 (as claimed): a start() call made while an earlier start() is still
\* running sends no session-create request and leaves the pause and cancel
\* flags as they are.
C5_StartGuardsReentry ==
  [][\A r \in Runs :
       (/\ run[r].pc = "idle" /\ run'[r].pc # "idle"
        /\ \E q \in Runs \ {r} : InFlight(q))
         => /\ run'[r].req.endpoint # "create"
            /\ this'.isPaused = this.isPaused
            /\ this'.isCancelled = this.isCancelled]_vars

\* C6 (as claimed): for each call of start(), exactly one of onComplete and
\* onError is invoked, exactly once, and only when the call settles:
\* onComplete when it resolves, onError (with the error) when it rejects;
\* before that, neither.
C6_ExactlyOneOutcome ==
  \A r \in Runs :
    LET outcomes == CallsOf(r, {"onComplete", "onError"})
    IN IF run[r].pc = "done"
       THEN /\ Len(outcomes) = 1
            /\ calls[r][Len(calls[r])] = outcomes[1]
            /\ outcomes[1] = IF run[r].error = NoError
                             THEN OnComplete(run[r].result)
                             ELSE OnError(run[r].error)
       ELSE outcomes = <<>>

\* C7: the offset of a chunk-upload request of a run is never below the
\* offset of the run's previous chunk request, and it equals it only when
\* the previous attempt failed and this request is its retry (the next pass
\* of the retry loop, after the backoff); after an acknowledgement the
\* offset is strictly greater.
SendsChunk(r) == run'[r] # run[r] /\ run'[r].req.endpoint = "chunk"
C7_OffsetsInOrder ==
  [][\A r \in Runs : SendsChunk(r) =>
       /\ run'[r].start >= run[r].start
       /\ run'[r].start = run[r].start =>
            /\ run[r].pc = "sleep"
            /\ run[r].lastError # ""
            /\ run'[r].attempt = run[r].attempt + 1
       /\ run'[r].req.offset = run'[r].start]_vars

\* A chunk other than the first is being retried at its own offset.
C7_Witness ==
  \E r \in Runs :
    /\ run[r].pc = "chunk" /\ run[r].attempt >= 1
    /\ run[r].start > 0 /\ run[r].req.offset = run[r].start

\* C8: a chunk gets at most maxRetries + 1 attempts; the first is made
\* without delay and the wait before retry k is retryDelay * 2^(k-1); with
\* maxRetries = 3 and retryDelay = 1000 the fourth attempt is made after
\* waits of 1000, 2000 and 4000.
C8_RetryBackoff ==
  \A r \in Runs :
    /\ run[r].attempt \in 0..this.maxRetries
    /\ run[r].pc = "chunk" => Len(run[r].slept) = run[r].attempt
    /\ run[r].pc = "sleep" => Len(run[r].slept) = run[r].attempt + 1
    /\ \A k \in DOMAIN run[r].slept :
         run[r].slept[k] = this.retryDelay * 2^(k - 1)
    /\ run[r].error.message = "Failed to upload chunk after" =>
         /\ run[r].error.attempts = this.maxRetries + 1
         /\ run[r].attempt = this.maxRetries
    /\ (this.maxRetries = 3 /\ this.retryDelay = 1000 /\ run[r].attempt = 3)
         => /\ run[r].slept = <<1000, 2000, 4000>>
            /\ SumSeq(run[r].slept) = 7000

\* With the defaults, the last chunk failed three times and was acknowledged
\* on the fourth attempt, after 1000 + 2000 + 4000.
C8_Witness ==
  /\ this.maxRetries = 3 /\ this.retryDelay = 1000
  /\ run[1].pc = "finalize" /\ run[1].attempt = 3
  /\ run[1].slept = <<1000, 2000, 4000>>
  /\ this.currentChunkIndex = this.totalChunks
  /\ calls[1][Len(calls[1])] =
       OnChunkComplete(this.totalChunks, this.totalChunks)

\* C9: when start() has resolved, onChunkComplete was invoked totalChunks
\* times with 1, 2, ..., totalChunks in that order, onComplete once and
\* last, and uploadedBytes equals the file size.
C9_CompletedRun ==
  \A r \in Runs : Completed(r) =>
    /\ CallsOf(r, {"onChunkComplete"}) =
         [k \in 1..this.totalChunks |-> OnChunkComplete(k, this.totalChunks)]
    /\ Len(CallsOf(r, {"onComplete"})) = 1
    /\ calls[r][Len(calls[r])].cb = "onComplete"
    /\ this.uploadedBytes = this.totalBytes

\* Three chunks with a shorter last one (3 bytes in chunks of 1, or the
\* like), the last acknowledged on its third attempt, and the run resolved.
C9_Witness ==
  /\ Completed(1)
  /\ this.totalChunks = 3
  /\ run[1].attempt = 2
  /\ Len(CallsOf(1, {"onChunkComplete"})) = 3

\* C10 (as claimed): the percentages of successive onProgress notifications
\* do not decrease, and one is exactly 100 only when the upload is
\* Completed (finalize has succeeded).
ProgressOf(r) == CallsOf(r, {"onProgress"})
C10_HundredOnlyWhenCompleted ==
  \A r \in Runs :
    /\ \A i, j \in DOMAIN ProgressOf(r) : i < j =>
         PctLeq(ProgressOf(r)[i].progress.percentage,
                ProgressOf(r)[j].progress.percentage)
    /\ \A i \in DOMAIN ProgressOf(r) :
         PctIs100(ProgressOf(r)[i].progress.percentage) => Completed(r)

\* C10 (amended): with a chunk endpoint that reports the cumulative offset,
\* the percentages of successive onProgress notifications do not decrease,
\* and one is exactly 100 only when every chunk has been acknowledged: it
\* is the notification of the last chunk, made before finalize is requested,
\* so the upload is finalizing or has settled, never still transferring.
C10_HundredOnlyWhenAllAcknowledged ==
  \A r \in Runs :
    /\ \A i, j \in DOMAIN ProgressOf(r) : i < j =>
         PctLeq(ProgressOf(r)[i].progress.percentage,
                ProgressOf(r)[j].progress.percentage)
    /\ \A i \in DOMAIN ProgressOf(r) :
         PctIs100(ProgressOf(r)[i].progress.percentage) =>
           /\ i = this.totalChunks
           /\ this.currentChunkIndex = this.totalChunks
           /\ this.uploadedBytes = this.totalBytes
           /\ run[r].pc \in {"finalize", "done"}

\* The notification of the last of several chunks reported 100 and the
\* finalize request is still outstanding.
C10_Witness ==
  /\ run[1].pc = "finalize"
  /\ Len(ProgressOf(1)) >= 2
  /\ PctIs100(ProgressOf(1)[Len(ProgressOf(1))].progress.percentage)

\* C11: pause() immediately followed by resume() leaves the run where it
\* was: the pause() changes nothing but isPaused (no request, no callback,
\* no local of start()), and the resume() that follows gives back exactly
\* the fields before the pause(), so the run continues as if never paused
\* (same requests, same outcome, same uploadedBytes).
C11_PauseResumeIsIdentity ==
  [][(~this.isPaused /\ this'.isPaused) =>
       /\ run' = run /\ calls' = calls /\ server' = server
       /\ this' = Paused(this)
       /\ Resumed(this') = this]_vars

\* pause() was called while a chunk is in flight and more chunks follow.
C11_Witness ==
  /\ this.isPaused /\ ~this.isCancelled
  /\ run[1].pc = "chunk"
  /\ this.currentChunkIndex + 1 < this.totalChunks
  /\ Resumed(this) # this

\* C12 (as claimed): uploadId, once set, never changes, and an instance
\* sends at most one session-create request.
C12_UploadIdAssignedOnce ==
  [][/\ this.uploadId # 0 => this'.uploadId = this.uploadId
     /\ \A r \in Runs :
          (run[r].req.endpoint # "create" /\ run'[r].req.endpoint = "create")
            => \A q \in Runs : run[q].pc = "idle"]_vars

\* C13 (as claimed): finalize is requested only when the chunk loop has
\* exhausted all indices and uploadedBytes >= totalBytes.
C13_FinalizeOnlyWhenAllBytes ==
  \A r \in Runs : run[r].req.endpoint = "finalize" =>
    /\ this.currentChunkIndex = this.totalChunks
    /\ this.uploadedBytes >= this.totalBytes

\* C14 (as claimed): once a start() call has settled (and none is running),
\* no later call changes a field of the instance and no request is sent.
C14_SettledIsTerminal ==
  [][((\E r \in Runs : run[r].pc = "done") /\ (\A r \in Runs : ~InFlight(r)))
       => /\ this' = this
          /\ \A r \in Runs : run'[r].req = NoReq]_vars

\* C15: pause(), resume() and cancel() are idempotent, and each changes no
\* field other than isPaused and isCancelled.
Flags == {"isPaused", "isCancelled"}
C15_FlagCallsIdempotent ==
  /\ Paused(Paused(this)) = Paused(this)
  /\ Resumed(Resumed(this)) = Resumed(this)
  /\ Cancelled(Cancelled(this)) = Cancelled(this)
  /\ \A f \in DOMAIN this \ Flags :
       /\ Paused(this)[f] = this[f]
       /\ Resumed(this)[f] = this[f]
       /\ Cancelled(this)[f] = this[f]
  /\ Paused(this).isCancelled = this.isCancelled
  /\ Resumed(this).isCancelled = this.isCancelled

\* The upload is paused at the pause checkpoint with chunks acknowledged: a
\* second pause() finds the flag set.
C15_Witness ==
  /\ this.isPaused /\ run[1].pc = "wait"
  /\ this.uploadedBytes > 0 /\ this.uploadId # 0
  /\ Paused(this) = this

\* C16: getProgress() is a projection of the fields: bytesRemaining =
\* totalBytes - uploadedBytes, isComplete = (uploadedBytes >= totalBytes),
\* percentage = uploadedBytes / totalBytes * 100; the snapshot start() last
\* passed to onProgress is the one the fields still give (taking it changed
\* none of them).
C16_ProgressIsProjection ==
  LET p == getProgress(this)
  IN /\ p.bytesRemaining = this.totalBytes - this.uploadedBytes
     /\ p.isComplete = (this.uploadedBytes >= this.totalBytes)
     /\ p.percentage.num * this.totalBytes =
          this.uploadedBytes * 100 * p.percentage.den
     /\ p.uploadedBytes = this.uploadedBytes
     /\ p.totalBytes = this.totalBytes
     /\ ProgressOf(1) # <<>> =>
          ProgressOf(1)[Len(ProgressOf(1))].progress = p

\* A snapshot of a partly uploaded file has been passed to onProgress.
C16_Witness ==
  /\ ProgressOf(1) # <<>>
  /\ 0 < this.uploadedBytes /\ this.uploadedBytes < this.totalBytes
  /\ this.currentChunkIndex < this.totalChunks

\* C17: restoreState(getState()) on a new instance for the same file gives
\* the same uploadId, uploadedBytes and currentChunkIndex; the index never
\* goes back afterwards and every chunk request is for the chunk at the
\* current index, so no chunk below the restored index is requested again.
C17_RestoreResumesAtIndex ==
  [][/\ Reload => getState(this') = getState(this)
     /\ this'.currentChunkIndex >= this.currentChunkIndex
     /\ \A r \in Runs : SendsChunk(r) =>
          run'[r].req.offset = ChunkStart(this', this'.currentChunkIndex)]_vars

\* After a reload, start() on the new instance (second session, no chunk
\* completed by it yet) requests a chunk beyond the first.
C17_Witness ==
  /\ this.uploadId = 2
  /\ run[1].pc = "chunk" /\ run[1].start > 0
  /\ calls[1] = <<>>

\* C18: a failed chunk attempt that has retries left leads to the backoff
\* and to no callback and no rejection; the failure of the last attempt
\* rejects with the error naming the attempts and the last message; every
\* rejection invokes onError once, with the error start() rejects with, and
\* nothing is invoked after that.
FailedAttempt(r) ==
  /\ run[r].pc = "chunk" /\ run'[r] # run[r]
  /\ this'.currentChunkIndex = this.currentChunkIndex
C18_FatalErrorsOnce ==
  [][\A r \in Runs :
       /\ (FailedAttempt(r) /\ run[r].attempt < this.maxRetries) =>
            /\ run'[r].pc = "sleep" /\ run'[r].error = NoError
            /\ calls'[r] = calls[r]
       /\ (FailedAttempt(r) /\ run[r].attempt = this.maxRetries) =>
            /\ run'[r].pc = "done"
            /\ run'[r].error =
                 Exhausted(this.maxRetries + 1, run'[r].lastError)
            /\ run'[r].lastError \in {"HTTP 500",
                                      "Invalid response from server"}
       /\ (run[r].pc # "done" /\ run'[r].pc = "done"
             /\ run'[r].error # NoError) =>
            /\ calls'[r][Len(calls'[r])] = OnError(run'[r].error)
            /\ CallsOf(r, {"onError"})' = <<OnError(run'[r].error)>>
            /\ CallsOf(r, {"onError"}) = <<>>
       /\ run[r].pc = "done" => (run'[r] = run[r] /\ calls'[r] = calls[r])
    ]_vars

\* A chunk after the first ran out of attempts: one onError, with the
\* error of the exhausted retries.
C18_Witness ==
  /\ run[1].pc = "done"
  /\ run[1].error = Exhausted(this.maxRetries + 1, "HTTP 500")
  /\ Len(run[1].slept) = this.maxRetries
  /\ this.currentChunkIndex >= 1
  /\ CallsOf(1, {"onError"}) = <<OnError(run[1].error)>>

\* C19 (as claimed): no chunk request is sent once cancel() was called, and
\* a run cancelled while a chunk attempt is in flight or in its backoff
\* ends with a cancellation error, never a transport error.
C19_CancelInRetryIsCancellation ==
  [][\A r \in Runs :
       /\ SendsChunk(r) => ~this.isCancelled
       /\ (this.isCancelled /\ run[r].pc \in {"chunk", "sleep"}
             /\ run'[r].pc = "done") => IsCancellation(run'[r].error)]_vars

\* C20 (as claimed): while the upload is paused no chunk-upload request is
\* sent.
C20_NoRequestWhilePaused ==
  [][\A r \in Runs : SendsChunk(r) => ~this.isPaused]_vars

\* C20 (amended): while the upload is paused the only chunk requests sent
\* are retries of the chunk already being attempted; an acknowledgement
\* that arrives while paused leads to the pause checkpoint, which is left
\* only when the upload is no longer paused or is cancelled: to the next
\* chunk after resume(), to the cancellation error after cancel(); and
\* pause() leaves the request in flight alone.
C20_PauseHoldsNextChunk ==
  [][\A r \in Runs :
       /\ (SendsChunk(r) /\ this.isPaused) =>
            /\ run[r].pc = "sleep"
            /\ run'[r].start = run[r].start
       /\ (this.isPaused /\ ~this.isCancelled /\ run[r].pc = "chunk"
             /\ this'.currentChunkIndex = this.currentChunkIndex + 1
             /\ this'.currentChunkIndex < this.totalChunks) =>
            run'[r].pc = "wait"
       /\ (run[r].pc = "wait" /\ run'[r] # run[r]) =>
            /\ ~this.isPaused \/ this.isCancelled
            /\ IF this.isCancelled
               THEN run'[r].pc = "done" /\ run'[r].error = CancelledByUser
               ELSE SendsChunk(r)
       /\ (~this.isPaused /\ this'.isPaused) => run' = run]_vars

\* The loop waits at the pause checkpoint after an acknowledged chunk.
C20_Witness ==
  /\ run[1].pc = "wait" /\ this.isPaused /\ ~this.isCancelled
  /\ this.currentChunkIndex >= 1
  /\ run[1].req = NoReq

\* C21: when a chunk transfer succeeds, uploadedBytes becomes the offset the
\* server reports, whatever that offset is, currentChunkIndex grows by one,
\* and onProgress and then onChunkComplete are invoked once each, with the
\* new values, before any request for the next chunk is sent.
C21_AcknowledgeTakesServerOffset ==
  [][\A resp \in AnyOffsetResponses :
       (ChunkResponse(1, resp) /\ ResponseError(resp) = "") =>
         LET n == Len(calls[1])
         IN /\ this'.uploadedBytes = resp.data
            /\ this'.currentChunkIndex = this.currentChunkIndex + 1
            /\ Len(calls'[1]) >= n + 2
            /\ SubSeq(calls'[1], 1, n) = calls[1]
            /\ calls'[1][n + 1].cb = "onProgress"
            /\ calls'[1][n + 1].progress.uploadedBytes = resp.data
            /\ calls'[1][n + 1].progress.chunksComplete
                 = this.currentChunkIndex + 1
            /\ calls'[1][n + 2]
                 = [cb |-> "onChunkComplete",
                    index |-> this.currentChunkIndex + 1,
                    total |-> this.totalChunks]
            /\ \A k \in (n + 3)..Len(calls'[1]) :
                 calls'[1][k].cb \notin {"onProgress", "onChunkComplete"}
            /\ run'[1].req.endpoint = "chunk" =>
                 run'[1].req.offset
                   = (this.currentChunkIndex + 1) * this.chunkSize]_vars

\* The server acknowledged a chunk with an offset that is not the end of
\* that chunk; the two notifications were made and the next chunk is in
\* flight.
C21_Witness ==
  /\ run[1].pc = "chunk" /\ run[1].attempt = 0
  /\ this.currentChunkIndex >= 1
  /\ this.uploadedBytes # ChunkEnd(this, this.currentChunkIndex - 1)
  /\ Len(calls[1]) >= 2
  /\ calls[1][Len(calls[1]) - 1] = OnProgress(getProgress(this))
  /\ calls[1][Len(calls[1])]
       = OnChunkComplete(this.currentChunkIndex, this.totalChunks)

\* C22 (as claimed): while a run is transferring or finalizing,
\* uploadedBytes never decreases, whatever the chunk endpoint answers.
C22_UploadedBytesNeverDecreases ==
  [][(\E r \in Runs : InFlight(r)) =>
       this'.uploadedBytes >= this.uploadedBytes]_vars

\* C23 (as claimed): 0 <= currentChunkIndex <= totalChunks in every
\* reachable state, under any interleaving of start(), pause(), resume(),
\* cancel() and responses.
C23_IndexInRange ==
  0 <= this.currentChunkIndex /\ this.currentChunkIndex <= this.totalChunks

\* C24: the error raised when the attempts of a chunk are used up is raised
\* after maxRetries + 1 attempts and names that count and the message of
\* the last failure; it is reported once, the run has ended with it and has
\* no request outstanding, the chunk is not acknowledged, finalize was not
\* called (no onComplete), and the run does nothing afterwards.
ExhaustedIsFatal(r) ==
  run[r].error.message = "Failed to upload chunk after" =>
    /\ run[r].pc = "done" /\ run[r].req = NoReq
    /\ run[r].attempt = this.maxRetries
    /\ run[r].error.attempts = this.maxRetries + 1
    /\ run[r].error.cause = run[r].lastError
    /\ run[r].lastError \in {"HTTP 500", "Invalid response from server"}
    /\ CallsOf(r, {"onError"}) = <<OnError(run[r].error)>>
    /\ CallsOf(r, {"onComplete"}) = <<>>
    /\ this.currentChunkIndex < this.totalChunks
    /\ Len(CallsOf(r, {"onChunkComplete"})) = this.currentChunkIndex
C24_ExhaustedIsFatal ==
  [][\A r \in Runs :
       /\ ExhaustedIsFatal(r)'
       /\ run[r].error.message = "Failed to upload chunk after" =>
            /\ run'[r] = run[r] /\ calls'[r] = calls[r]
            /\ this'.currentChunkIndex = this.currentChunkIndex
            /\ this'.uploadedBytes = this.uploadedBytes]_vars

\* The first chunk failed four times (maxRetries = 3), the last time with an
\* unusable envelope.
C24_Witness ==
  /\ this.maxRetries = DefaultMaxRetries
  /\ run[1].pc = "done"
  /\ run[1].error
       = Exhausted(DefaultMaxRetries + 1, "Invalid response from server")
  /\ this.currentChunkIndex = 0
  /\ run[1].req = NoReq

\* C25: the first request of a run is the session-create request and it is
\* sent once; a chunk-upload or finalize request is sent only after the
\* session-create of the same run has succeeded, and carries a session id
\* that the server has issued; a failed session-create ends the run at
\* once with its error, without a retry and without any further request.
C25_NegotiateThenChunksThenFinalize ==
  [][\A r \in Runs :
       /\ (run[r].pc = "idle" /\ run'[r] # run[r]) =>
            run'[r].pc = "create" /\ run'[r].req.endpoint = "create"
       /\ (run'[r].req.endpoint = "create" /\ run'[r] # run[r]) =>
            run[r].pc = "idle"
       /\ (run[r].pc = "create" /\ run'[r] # run[r]) =>
            \/ /\ server' = server + 1
               /\ this'.uploadId = server'
               /\ run'[r].error \in {NoError, CancelledByUser}
            \/ /\ server' = server
               /\ this'.uploadId = this.uploadId
               /\ run'[r].pc = "done" /\ run'[r].req = NoReq
               /\ run'[r].error.message
                    \in {"HTTP 500", "Invalid response from server"}
       /\ run'[r].req.endpoint \in {"chunk", "finalize"} =>
            /\ run[r].pc \notin {"idle", "done"}
            /\ run'[r].req.uploadId \in 1..server'
       /\ run[r].pc = "done" => run'[r] = run[r]]_vars

\* The session-create of the first run failed and the run ended before any
\* chunk was sliced, while a second run, whose session-create succeeded,
\* has reached finalize.
C25_Witness ==
  /\ run[1].pc = "done" /\ run[1].start = -1
  /\ run[1].error = Error("Invalid response from server", 0, "")
  /\ run[2].req.endpoint = "finalize"
  /\ run[2].req.uploadId = server

\* C26: start(), also on an instance that was given a snapshot with
\* restoreState(), always sends a session-create request; when it succeeds
\* the uploadId (restored or not) is replaced by the new one, the chunk
\* index is left as restored, and every chunk and finalize request that
\* follows carries the id of the newest session.
C26_StartAfterRestoreOpensNewSession ==
  [][/\ (run[1].pc = "idle" /\ run'[1] # run[1]) =>
          run'[1].req = CreateReq(this)
     /\ (run[1].pc = "create" /\ run'[1].pc # "idle"
           /\ server' # server) =>
          /\ server' = server + 1
          /\ this'.uploadId = server'
          /\ this'.uploadId # this.uploadId
          /\ this'.currentChunkIndex = this.currentChunkIndex
          /\ run'[1].req.endpoint = "chunk" =>
               run'[1].req.offset = this.currentChunkIndex * this.chunkSize
     /\ run'[1].req.endpoint \in {"chunk", "finalize"} =>
          run'[1].req.uploadId = server' /\ this'.uploadId = server'
    ]_vars

\* After a reload finalize is sent under the second session although this
\* instance has not uploaded every chunk itself: the earlier ones went to
\* the first session.
C26_Witness ==
  /\ run[1].req.endpoint = "finalize"
  /\ run[1].req.uploadId = 2
  /\ this.currentChunkIndex = this.totalChunks
  /\ Len(CallsOf(1, {"onChunkComplete"})) < this.totalChunks
  /\ Len(CallsOf(1, {"onChunkComplete"})) >= 1

\* C28: the offset sent with a chunk request is currentChunkIndex times
\* chunkSize and its size the rest of the file up to chunkSize, whatever
\* offset the server has acknowledged; so it differs from uploadedBytes
\* whenever the server acknowledged another offset than the chunk boundary.
C28_OffsetFromIndex ==
  \A r \in Runs : run[r].req.endpoint = "chunk" =>
    /\ run[r].req.offset = this.currentChunkIndex * this.chunkSize
    /\ run[r].req.size
         = Min(this.chunkSize, this.totalBytes - run[r].req.offset)
    /\ this.uploadedBytes # this.currentChunkIndex * this.chunkSize =>
         run[r].req.offset # this.uploadedBytes

\* A chunk after the first is requested at an offset below the bytes the
\* server has acknowledged.
C28_Witness ==
  /\ run[1].req.endpoint = "chunk"
  /\ this.currentChunkIndex >= 1
  /\ run[1].req.offset < this.uploadedBytes

\* C29: a failed chunk attempt changes neither uploadedBytes nor
\* currentChunkIndex; and when a run has ended in an error, the exported
\* currentChunkIndex is the number of chunks acknowledged (the index of the
\* first unacknowledged chunk) and the exported uploadedBytes is the offset
\* of the last acknowledgement (0 when there was none).
ErrorKeepsAcknowledged(r) ==
  (run[r].pc = "done" /\ run[r].error # NoError) =>
    LET acks == CallsOf(r, {"onChunkComplete"})
        prog == ProgressOf(r)
    IN /\ getState(this).currentChunkIndex = Len(acks)
       /\ Len(prog) = Len(acks)
       /\ getState(this).uploadedBytes
            = IF prog = <<>> THEN 0
              ELSE prog[Len(prog)].progress.uploadedBytes
C29_ErrorKeepsAcknowledged ==
  [][\A r \in Runs :
       /\ \A resp \in Failures : ChunkResponse(r, resp) =>
            /\ this'.uploadedBytes = this.uploadedBytes
            /\ this'.currentChunkIndex = this.currentChunkIndex
       /\ ErrorKeepsAcknowledged(r)']_vars

\* The retries of the second chunk ran out after the server had
\* acknowledged the first chunk with the size of the whole file.
C29_Witness ==
  /\ run[1].pc = "done"
  /\ run[1].error.message = "Failed to upload chunk after"
  /\ this.currentChunkIndex = 1 /\ this.totalChunks > 1
  /\ this.uploadedBytes = this.totalBytes
  /\ getState(this).currentChunkIndex = 1

\* C27 (as claimed): with responses, timers and a resume() or cancel()
\* after every pause() guaranteed, every start() ends.
C27_StartTerminates == (run[1].pc # "idle") ~> (run[1].pc = "done")

\* C27 (amended): under the same guarantees every start() ends, provided
\* that a loop which is found resumed again and again while it waits in
\* waitForResume is at some time found so by a tick of the interval (a
\* resume() that is followed by pause() before the next tick wakes nothing).
C27_StartTerminatesWhenTickSeesResume ==
  SF_vars(PollTick(1)) => ((run[1].pc # "idle") ~> (run[1].pc = "done"))

\* resume() was called while the loop waits in waitForResume after an
\* acknowledged chunk: the next tick of the interval wakes it.
C27_Witness ==
  /\ run[1].pc = "wait" /\ ~this.isPaused /\ ~this.isCancelled
  /\ this.currentChunkIndex >= 1

\* C30 (as claimed): a CommentPoller never has more than one poll pending
\* (scheduled poll timeouts plus poll requests in flight), and a stopped
\* poller issues no poll request.
C30_OnePollPending ==
  [][/\ Cardinality(poller'.pollTimers) + poller'.inFlight <= 1
     /\ ~poller.isActive => poller'.inFlight <= poller.inFlight]_vars

====
